---- MODULE Spec2Model ----
(***************************************************************************)
(* Request gatekeeping layer of the due-diligence platform                 *)
(* (src/security.py): the per-client sliding-window rate limiter, the      *)
(* input sanitizer, the suspicious-pattern scan, the symbol validator and  *)
(* the decorators that compose them in front of the route handlers.        *)
(*                                                                         *)
(* A Python string is a sequence of characters; a character is a           *)
(* one-element TLA+ string, and the characters that have no printable      *)
(* form carry their ASCII names ("NUL", "BEL", "TAB", "LF", ...).          *)
(***************************************************************************)
EXTENDS Integers, Sequences, FiniteSets, TLC

(***************************************************************************)
(* Bounds of the model.                                                    *)
(***************************************************************************)
\* fragments concatenated into one input string of the pure functions
MaxFrags == 3
\* the sanitizer is applied with max_length 1..MaxLength and with its default
MaxLength == 3
\* requests received in one behaviour: well-formed ones served one at a
\* time, well-formed ones served by concurrent threads, and requests of every
\* shape served one at a time
MaxRequests == 5
MaxConcurrentRequests == 5
MaxGateRequests == 2
\* requests received when each of two clients has a thread of its own
MaxPairRequests == 5
\* last clock value, in seconds
MaxTime == 60

(***************************************************************************)
(* Character classes of the regular expressions and of str.strip().        *)
(***************************************************************************)
UpperLetters ==
    {"A", "B", "C", "D", "E", "F", "G", "H", "I", "J", "K", "L", "M",
     "N", "O", "P", "Q", "R", "S", "T", "U", "V", "W", "X", "Y", "Z"}

LowerLetters ==
    {"a", "b", "c", "d", "e", "f", "g", "h", "i", "j", "k", "l", "m",
     "n", "o", "p", "q", "r", "s", "t", "u", "v", "w", "x", "y", "z"}

Digits == {"0", "1", "2", "3", "4", "5", "6", "7", "8", "9"}

\* [\x00-\x08\x0B\x0C\x0E-\x1F\x7F]: representatives of each range
ControlChars == {"NUL", "BEL", "VT", "FF", "ESC", "DEL"}

\* what \s matches and what str.strip() removes
WhiteSpace == {" ", "TAB", "LF", "CR", "VT", "FF"}

\* what \w matches
WordChars == UpperLetters \cup LowerLetters \cup Digits \cup {"_"}

\* [<>"\';()&+]
SpecialChars == {"<", ">", "\"", "'", ";", "(", ")", "&", "+"}

\* [A-Za-z0-9]
SymbolChars == UpperLetters \cup LowerLetters \cup Digits

LowerOf ==
    [c \in UpperLetters |->
        CASE c = "A" -> "a" [] c = "B" -> "b" [] c = "C" -> "c" [] c = "D" -> "d"
          [] c = "E" -> "e" [] c = "F" -> "f" [] c = "G" -> "g" [] c = "H" -> "h"
          [] c = "I" -> "i" [] c = "J" -> "j" [] c = "K" -> "k" [] c = "L" -> "l"
          [] c = "M" -> "m" [] c = "N" -> "n" [] c = "O" -> "o" [] c = "P" -> "p"
          [] c = "Q" -> "q" [] c = "R" -> "r" [] c = "S" -> "s" [] c = "T" -> "t"
          [] c = "U" -> "u" [] c = "V" -> "v" [] c = "W" -> "w" [] c = "X" -> "x"
          [] c = "Y" -> "y" [] c = "Z" -> "z"]

\* str.lower()
lower(s) == [i \in 1..Len(s) |-> IF s[i] \in UpperLetters THEN LowerOf[s[i]] ELSE s[i]]

\* re.sub(r'[class]', '', s)
RECURSIVE RemoveChars(_, _)
RemoveChars(s, class) ==
    IF s = <<>> THEN <<>>
    ELSE IF Head(s) \in class THEN RemoveChars(Tail(s), class)
         ELSE <<Head(s)>> \o RemoveChars(Tail(s), class)

\* the length limit left out
Truncate_none(s, n) == s

\* s[:n]
Truncate(s, n) == IF Len(s) > n THEN SubSeq(s, 1, n) ELSE s

RECURSIVE LStrip(_)
LStrip(s) ==
    IF s = <<>> THEN <<>>
    ELSE IF Head(s) \in WhiteSpace THEN LStrip(Tail(s)) ELSE s

RECURSIVE RStrip(_)
RStrip(s) ==
    IF s = <<>> THEN <<>>
    ELSE IF s[Len(s)] \in WhiteSpace THEN RStrip(SubSeq(s, 1, Len(s) - 1)) ELSE s

\* str.strip()
strip(s) == RStrip(LStrip(s))

(***************************************************************************)
(* Python values that reach the gate: a str, None, or an int.              *)
(***************************************************************************)
PyStr(s) == [kind |-> "str", s |-> s]
PyNone == [kind |-> "none"]
PyInt(digits) == [kind |-> "int", s |-> digits]

\* bool(v) is False
Falsy(v) ==
    \/ v.kind = "none"
    \/ v.kind = "str" /\ v.s = <<>>
    \/ v.kind = "int" /\ v.s = <<"0">>

\* str(v)
str(v) == IF v.kind = "none" THEN <<"N", "o", "n", "e">> ELSE v.s

(***************************************************************************)
(* SecurityManager.validate_input                                          *)
(***************************************************************************)
RemoveControl(s) == RemoveChars(s, ControlChars)

\* the flag ignored
RemoveSpecial_always(s, allow_special_chars) == RemoveChars(s, SpecialChars)

RemoveSpecial(s, allow_special_chars) ==
    IF ~allow_special_chars THEN RemoveChars(s, SpecialChars) ELSE s

validate_input(input_string, max_length, allow_special_chars) ==
    IF Falsy(input_string) THEN <<>>
    ELSE strip(RemoveSpecial(Truncate(RemoveControl(str(input_string)), max_length),
                             allow_special_chars))

(***************************************************************************)
(* SecurityManager.validate_symbol                                         *)
(***************************************************************************)
\* re.match(r'^[A-Za-z0-9]{1,10}$', s): "$" matches at the end of the string
\* and also just before a newline that ends the string
SymbolPatternMatches(s) ==
    LET body == IF Len(s) > 0 /\ s[Len(s)] = "LF"
                THEN {s, SubSeq(s, 1, Len(s) - 1)} ELSE {s}
    IN \E b \in body :
          /\ Len(b) >= 1
          /\ Len(b) <= 10
          /\ \A i \in 1..Len(b) : b[i] \in SymbolChars

\* re.match raises TypeError when handed a value that is not a str
validate_symbol_raises(symbol) == ~Falsy(symbol) /\ symbol.kind # "str"

validate_symbol(symbol) ==
    IF Falsy(symbol) THEN FALSE ELSE SymbolPatternMatches(symbol.s)

(***************************************************************************)
(* SecurityManager.check_suspicious_activity                               *)
(***************************************************************************)
\* the literal lit occurs in s at position i
At(s, i, lit) ==
    /\ i >= 1
    /\ i + Len(lit) - 1 <= Len(s)
    /\ SubSeq(s, i, i + Len(lit) - 1) = lit

\* re.search of a literal
SearchLiteral(s, lit) == \E i \in 1..Len(s) : At(s, i, lit)

\* re.search of  a\s*b  (min = 0)  or  a\s+b  (min = 1)
SearchSpaced(s, a, min, b) ==
    \E i \in 1..Len(s) :
        /\ At(s, i, a)
        /\ \E j \in (i + Len(a) + min)..Len(s) :
              /\ \A k \in (i + Len(a))..(j - 1) : s[k] \in WhiteSpace
              /\ At(s, j, b)

\* re.search of  on\w+\s*=
SearchEventHandler(s) ==
    \E i \in 1..Len(s) :
        /\ At(s, i, <<"o", "n">>)
        /\ \E j \in (i + 2)..Len(s) :
              /\ \A k \in (i + 2)..j : s[k] \in WordChars
              /\ \E m \in (j + 1)..Len(s) :
                    /\ \A k \in (j + 1)..(m - 1) : s[k] \in WhiteSpace
                    /\ s[m] = "="

\* the list suspicious_patterns, in its order
suspicious_patterns ==
    << "<script", "javascript:", "on\\w+\\s*=", "eval\\s*\\(", "document\\.",
       "window\\.", "\\.\\./", "union\\s+select", "drop\\s+table",
       "insert\\s+into", "delete\\s+from" >>

\* re.search(suspicious_patterns[p], s)
PatternSearch(p, s) ==
    CASE p = 1 -> SearchLiteral(s, <<"<", "s", "c", "r", "i", "p", "t">>)
      [] p = 2 -> SearchLiteral(s, <<"j", "a", "v", "a", "s", "c", "r", "i", "p", "t", ":">>)
      [] p = 3 -> SearchEventHandler(s)
      [] p = 4 -> SearchSpaced(s, <<"e", "v", "a", "l">>, 0, <<"(">>)
      [] p = 5 -> SearchLiteral(s, <<"d", "o", "c", "u", "m", "e", "n", "t", ".">>)
      [] p = 6 -> SearchLiteral(s, <<"w", "i", "n", "d", "o", "w", ".">>)
      [] p = 7 -> SearchLiteral(s, <<".", ".", "/">>)
      [] p = 8 -> SearchSpaced(s, <<"u", "n", "i", "o", "n">>, 1, <<"s", "e", "l", "e", "c", "t">>)
      [] p = 9 -> SearchSpaced(s, <<"d", "r", "o", "p">>, 1, <<"t", "a", "b", "l", "e">>)
      [] p = 10 -> SearchSpaced(s, <<"i", "n", "s", "e", "r", "t">>, 1, <<"i", "n", "t", "o">>)
      [] p = 11 -> SearchSpaced(s, <<"d", "e", "l", "e", "t", "e">>, 1, <<"f", "r", "o", "m">>)

\* the patterns that match the lower-cased input, by index
MatchingPatterns(user_input) ==
    {p \in 1..Len(suspicious_patterns) : PatternSearch(p, lower(user_input))}

\* (is_suspicious, reason): the first pattern of the list that matches
check_suspicious_activity(user_input) ==
    LET hits == MatchingPatterns(user_input)
    IN IF hits # {}
       THEN [is_suspicious |-> TRUE,
             reason |-> <<"Suspicious pattern detected: ",
                          suspicious_patterns[CHOOSE p \in hits : \A q \in hits : p <= q]>>]
       ELSE [is_suspicious |-> FALSE, reason |-> <<"Clean">>]

(***************************************************************************)
(* The routes (src/routes/due_diligence.py) and what each is decorated     *)
(* with.  max_requests is scaled down (the routes declare 20, 30 and 5     *)
(* requests a minute) keeping search < profile and profile > 2 * analyze.  *)
(* /financial-statements and /market-news are decorated as /company-profile*)
(* is.                                                                     *)
(***************************************************************************)
SearchMaxRequests == 2
ProfileMaxRequests == 3
AnalyzeMaxRequests == 1

Endpoints == {"/search-company", "/company-profile", "/analyze-company"}

Route(e) ==
    CASE e = "/search-company" ->
            [max_requests |-> SearchMaxRequests, window_minutes |-> 1, gate |-> "field",
             field_name |-> "query", max_length |-> 100, allow_special_chars |-> FALSE]
      [] e = "/company-profile" ->
            [max_requests |-> ProfileMaxRequests, window_minutes |-> 1, gate |-> "symbol",
             field_name |-> "symbol", max_length |-> 10, allow_special_chars |-> FALSE]
      [] e = "/analyze-company" ->
            [max_requests |-> AnalyzeMaxRequests, window_minutes |-> 1, gate |-> "field",
             field_name |-> "symbol", max_length |-> 10, allow_special_chars |-> FALSE]

\* window_minutes * 60
WindowSeconds(window_minutes) == window_minutes * 60

Clients == {"10.0.0.1", "10.0.0.2"}
Threads == {1, 2}

(***************************************************************************)
(* Requests.  data is what request.get_json() / request.form yields: a     *)
(* JSON null, number, list of strings or object, or the form's fields.     *)
(* kwargs holds the URL's <symbol> for the path routes.                    *)
(***************************************************************************)
JsonNull == [kind |-> "null"]
JsonNumber == [kind |-> "number"]
JsonList(items) == [kind |-> "list", items |-> items]
JsonObject(fields) == [kind |-> "object", fields |-> fields]
NoFields == [f \in {} |-> PyNone]
OneField(name, v) == [f \in {name} |-> v]

sAAPL == <<"A", "A", "P", "L">>
sApple == <<"a", "p", "p", "l", "e">>

\* values a declared field arrives with
FieldValues ==
    { PyStr(sApple),
      PyStr(<<" ", "a", "(", "NUL", "b", " ">>),
      PyStr(<<"<", "S", "c", "r", "i", "p", "t", ">">>),
      PyStr(<<"o", "n", "<", "x", "=">>),
      PyInt(<<"4", "2">>) }

\* symbols a path arrives with
PathSymbols ==
    { sAAPL, <<"A", "A", "P", "L", ".", "U", "S">>, <<"A", "A", "P", "L", "LF">> }

BodiesFor(field_name) ==
    {[is_json |-> TRUE, data |-> d] :
        d \in {JsonNull, JsonNumber, JsonList({field_name}), JsonObject(NoFields)}
              \cup {JsonObject(OneField(field_name, v)) : v \in FieldValues}}
    \cup {[is_json |-> FALSE, data |-> JsonObject(OneField(field_name, PyStr(sApple)))]}

NoKwargs == [k \in {} |-> <<>>]

RequestsTo(e) ==
    IF Route(e).gate = "symbol"
    THEN {[endpoint |-> e, kwargs |-> [symbol |-> PyStr(s)], is_json |-> FALSE,
           data |-> JsonObject(NoFields)] : s \in PathSymbols}
    ELSE {[endpoint |-> e, kwargs |-> NoKwargs, is_json |-> b.is_json, data |-> b.data] :
             b \in BodiesFor(Route(e).field_name)}

(***************************************************************************)
(* Responses: jsonify(body), status                                        *)
(***************************************************************************)
Response(status, body) == [status |-> status, body |-> body]
\* an exception that leaves the decorator
Raised(exc) == [status |-> 500, raised |-> exc]
NoResponse == [status |-> 0]

BlockedResponse == Response(429, [error |-> "IP blocked due to abuse"])
RateLimitResponse(window_minutes) ==
    Response(429, [error |-> "Rate limit exceeded",
                   retry_after |-> WindowSeconds(window_minutes)])
MissingFieldResponse(field_name) ==
    Response(400, [error |-> <<"Missing required field: ", field_name>>])
\* the scan's reason handed to the caller
SuspiciousResponse_leaky(reason) == Response(400, [error |-> reason])

SuspiciousResponse(reason) == Response(400, [error |-> "Invalid input detected"])
InvalidSymbolResponse == Response(400, [error |-> "Invalid symbol format"])

\* the entry log_security_event prints
LogEntry(event_type, client_ip, details) ==
    [event_type |-> event_type, client_ip |-> client_ip, details |-> details]

(***************************************************************************)
(* require_valid_input: what the decorator does with a request.  The       *)
(* result names how it ends ("raise", "respond" or "call": the wrapped     *)
(* function is called), the response, the entries logged and the request   *)
(* as the decorator leaves it.                                             *)
(***************************************************************************)
\* field_name not in data / data[field_name] raise TypeError on these
MembershipRaises(data) == data.kind \in {"null", "number"}

\* field_name in data
FieldIn(field_name, data) ==
    CASE data.kind = "object" -> field_name \in DOMAIN data.fields
      [] data.kind = "list" -> field_name \in data.items
      [] OTHER -> FALSE

\* str(value)[:100]
LoggedValue(value) == Truncate(str(value), 100)

require_valid_input(req, client_ip, field_name, max_length, allow_special_chars) ==
    IF MembershipRaises(req.data)
    THEN [ends |-> "raise", response |-> Raised("TypeError"), logged |-> <<>>, request |-> req]
    ELSE IF ~FieldIn(field_name, req.data)
    THEN [ends |-> "respond", response |-> MissingFieldResponse(field_name),
          logged |-> <<>>, request |-> req]
    ELSE IF req.data.kind # "object"
    THEN \* data[field_name] on a list
         [ends |-> "raise", response |-> Raised("TypeError"), logged |-> <<>>, request |-> req]
    ELSE LET value == req.data.fields[field_name]
             scan == check_suspicious_activity(str(value))
         IN IF scan.is_suspicious
            THEN [ends |-> "respond", response |-> SuspiciousResponse(scan.reason),
                  logged |-> <<LogEntry("SUSPICIOUS_INPUT", client_ip,
                                        <<field_name, scan.reason, LoggedValue(value)>>)>>,
                  request |-> req]
            ELSE [ends |-> "call", response |-> NoResponse, logged |-> <<>>,
                  request |->
                     [req EXCEPT !.data.fields[field_name] =
                         PyStr(validate_input(value, max_length, allow_special_chars))]]

(***************************************************************************)
(* validate_symbol_input                                                   *)
(***************************************************************************)
\* data.get('symbol', '') raises AttributeError on these
GetRaises(data) == data.kind # "object"

validate_symbol_input(req, client_ip) ==
    IF "symbol" \notin DOMAIN req.kwargs /\ GetRaises(req.data)
    THEN [ends |-> "raise", response |-> Raised("AttributeError"), logged |-> <<>>,
          request |-> req]
    ELSE LET symbol == IF "symbol" \in DOMAIN req.kwargs THEN req.kwargs.symbol
                       ELSE IF "symbol" \in DOMAIN req.data.fields
                            THEN req.data.fields["symbol"]
                            ELSE PyStr(<<>>)
         IN IF validate_symbol_raises(symbol)
            THEN [ends |-> "raise", response |-> Raised("TypeError"), logged |-> <<>>,
                  request |-> req]
            ELSE IF ~validate_symbol(symbol)
            THEN [ends |-> "respond", response |-> InvalidSymbolResponse,
                  logged |-> <<LogEntry("INVALID_SYMBOL", client_ip, str(symbol))>>,
                  request |-> req]
            ELSE [ends |-> "call", response |-> NoResponse, logged |-> <<>>,
                  request |-> req]

(***************************************************************************)
(* State                                                                   *)
(***************************************************************************)
VARIABLES
    rate_limit_storage, \* SecurityManager.rate_limit_storage: client -> timestamps
    blocked_ips,        \* SecurityManager.blocked_ips
    security_log,       \* what log_security_event has printed
    now,                \* time.time(), in seconds
    thr,                \* the request each server thread is executing rate_limit for
    started,            \* requests received so far
    admitted,           \* per client, the time of every request rate_limit let through
    served,             \* per client, the requests rate_limit has decided and their route
    last,               \* the exchange completed most recently, as the caller saw it
    fn                  \* one application of a pure function to one input

vars == <<rate_limit_storage, blocked_ips, security_log, now, thr, started,
          admitted, served, last, fn>>

gateVars == <<rate_limit_storage, blocked_ips, security_log, now, thr, started,
              admitted, served, last>>

Idle == [pc |-> "idle"]
NoExchange == [limiter |-> "none"]
FnIdle == [op |-> "none"]

\* seconds the clock advances by between two events
ClockSteps == {30, 60}

Init ==
    /\ rate_limit_storage = [c \in Clients |-> <<>>]
    /\ blocked_ips = {}
    /\ security_log = <<>>
    /\ now = 0
    /\ thr = [t \in Threads |-> Idle]
    /\ started = 0
    /\ admitted = [c \in Clients |-> <<>>]
    /\ served = [c \in Clients |-> [count |-> 0, route |-> "none"]]
    /\ last = NoExchange
    /\ fn = FnIdle

(***************************************************************************)
(* rate_limit's decorated_function, one action per access to the state     *)
(* the threads share.                                                      *)
(***************************************************************************)
\* one more request of the client decided, at this endpoint
Serve(s, endpoint) ==
    [count |-> s.count + 1,
     route |-> IF s.route \in {"none", endpoint} THEN endpoint ELSE "several"]

\* the exchange as the caller saw it
Exchange(client_ip, endpoint, current_time, limiter, raw, inner, handler) ==
    [client_ip |-> client_ip, endpoint |-> endpoint,
     current_time |-> current_time, limiter |-> limiter, raw |-> raw,
     validated |-> inner.ends # "skipped", request |-> inner.request,
     logged |-> inner.logged, handler |-> handler,
     response |-> IF handler THEN Response(200, [handled |-> endpoint])
                  ELSE inner.response]

\* the wrapped function was not called
Skipped(response) ==
    [ends |-> "skipped", response |-> response, logged |-> <<>>, request |-> <<>>]

\* lines 51-57: the client is resolved, a blocked client is turned away, the clock is read
Begin(t, client_ip, endpoint, limit) ==
    /\ thr[t].pc = "idle"
    /\ \A u \in Threads : u < t => thr[u].pc # "idle"
    /\ started < limit
    /\ started' = started + 1
    /\ IF client_ip \in blocked_ips
       THEN /\ last' = Exchange(client_ip, endpoint, now, "blocked", <<>>,
                                Skipped(BlockedResponse), FALSE)
            /\ served' = [served EXCEPT ![client_ip] = Serve(@, endpoint)]
            /\ UNCHANGED thr
       ELSE /\ thr' = [thr EXCEPT ![t] =
                          [pc |-> "prune_read", client_ip |-> client_ip,
                           endpoint |-> endpoint, current_time |-> now,
                           window_start |-> now - WindowSeconds(Route(endpoint).window_minutes)]]
            /\ UNCHANGED <<last, served>>
    /\ UNCHANGED <<rate_limit_storage, blocked_ips, security_log, now, admitted, fn>>

\* a prune that drops nothing
InWindow_always(req_time, window_start) == TRUE

\* a window closed at its start
InWindow_inclusive(req_time, window_start) == req_time >= window_start

\* req_time > window_start
InWindow(req_time, window_start) == req_time > window_start

\* lines 61-63: the list comprehension over the client's list
PruneRead(t) ==
    /\ thr[t].pc = "prune_read"
    /\ thr' = [thr EXCEPT ![t] =
                  [pc |-> "prune_write", client_ip |-> thr[t].client_ip,
                   endpoint |-> thr[t].endpoint, current_time |-> thr[t].current_time,
                   filtered |-> SelectSeq(rate_limit_storage[thr[t].client_ip],
                                          LAMBDA req_time :
                                              InWindow(req_time, thr[t].window_start))]]
    /\ UNCHANGED <<rate_limit_storage, blocked_ips, security_log, now, started,
                   admitted, served, last, fn>>

\* line 60: the filtered copy replaces the client's list
PruneWrite(t) ==
    /\ thr[t].pc = "prune_write"
    /\ rate_limit_storage' =
          [rate_limit_storage EXCEPT ![thr[t].client_ip] = thr[t].filtered]
    /\ thr' = [thr EXCEPT ![t] =
                  [pc |-> "check_limit", client_ip |-> thr[t].client_ip,
                   endpoint |-> thr[t].endpoint, current_time |-> thr[t].current_time]]
    /\ UNCHANGED <<blocked_ips, security_log, now, started, admitted, served, last, fn>>

\* the limit test with > for >=
OverLimit_strict(count, max_requests) == count > max_requests

\* len(...) >= max_requests
OverLimit(count, max_requests) == count >= max_requests

\* line 66
CheckLimit(t) ==
    /\ thr[t].pc = "check_limit"
    /\ thr' = [thr EXCEPT ![t].pc =
                  IF OverLimit(Len(rate_limit_storage[thr[t].client_ip]),
                               Route(thr[t].endpoint).max_requests)
                  THEN "reject" ELSE "append"]
    /\ UNCHANGED <<rate_limit_storage, blocked_ips, security_log, now, started,
                   admitted, served, last, fn>>

\* the escalation test against three times the limit
Escalate_late(blocked, client_ip, count, max_requests) ==
    IF count > max_requests * 3 THEN blocked \cup {client_ip} ELSE blocked

\* a block that is lifted by a rejection below the escalation threshold
Escalate_forgets(blocked, client_ip, count, max_requests) ==
    IF count > max_requests * 2 THEN blocked \cup {client_ip} ELSE blocked \ {client_ip}

\* an escalation that takes every client with it
Escalate_everyone(blocked, client_ip, count, max_requests) ==
    IF count > max_requests * 2 THEN Clients ELSE blocked

\* the escalation left out
Escalate_never(blocked, client_ip, count, max_requests) == blocked

\* lines 68-69: blocked_ips after the escalation test
Escalate(blocked, client_ip, count, max_requests) ==
    IF count > max_requests * 2 THEN blocked \cup {client_ip} ELSE blocked

\* a rejection that appends its timestamp as an admission does
Reject_appends(t) ==
    /\ thr[t].pc = "reject"
    /\ blocked_ips' = Escalate(blocked_ips, thr[t].client_ip,
                               Len(rate_limit_storage[thr[t].client_ip]),
                               Route(thr[t].endpoint).max_requests)
    /\ rate_limit_storage' =
          [rate_limit_storage EXCEPT ![thr[t].client_ip] = Append(@, thr[t].current_time)]
    /\ last' = Exchange(thr[t].client_ip, thr[t].endpoint, thr[t].current_time,
                        "limited", <<>>,
                        Skipped(RateLimitResponse(Route(thr[t].endpoint).window_minutes)),
                        FALSE)
    /\ served' = [served EXCEPT ![thr[t].client_ip] = Serve(@, thr[t].endpoint)]
    /\ thr' = [thr EXCEPT ![t] = Idle]
    /\ UNCHANGED <<security_log, now, started, admitted, fn>>

\* lines 68-74
Reject(t) ==
    /\ thr[t].pc = "reject"
    /\ blocked_ips' = Escalate(blocked_ips, thr[t].client_ip,
                               Len(rate_limit_storage[thr[t].client_ip]),
                               Route(thr[t].endpoint).max_requests)
    /\ last' = Exchange(thr[t].client_ip, thr[t].endpoint, thr[t].current_time,
                        "limited", <<>>,
                        Skipped(RateLimitResponse(Route(thr[t].endpoint).window_minutes)),
                        FALSE)
    /\ served' = [served EXCEPT ![thr[t].client_ip] = Serve(@, thr[t].endpoint)]
    /\ thr' = [thr EXCEPT ![t] = Idle]
    /\ UNCHANGED <<rate_limit_storage, security_log, now, started, admitted, fn>>

\* a route declared without its inner decorator
Wrapped_undecorated(req, client_ip) ==
    [ends |-> "call", response |-> NoResponse, logged |-> <<>>, request |-> req]

\* the function rate_limit wraps: the route's inner decorator around its handler
Wrapped(req, client_ip) ==
    LET r == Route(req.endpoint)
    IN IF r.gate = "field"
       THEN require_valid_input(req, client_ip, r.field_name, r.max_length,
                                r.allow_special_chars)
       ELSE validate_symbol_input(req, client_ip)

\* one well-formed request for each route
WellFormedRequestsTo(e) ==
    IF Route(e).gate = "symbol"
    THEN {r \in RequestsTo(e) : r.kwargs.symbol.s = sAAPL}
    ELSE {r \in RequestsTo(e) :
            r.is_json /\ r.data = JsonObject(OneField(Route(e).field_name, PyStr(sApple)))}

\* the requests the model draws for a route: the well-formed one, or every shape
RequestsOfShape(shapes, e) ==
    IF shapes = "well-formed" THEN WellFormedRequestsTo(e) ELSE RequestsTo(e)

\* lines 77-79: the timestamp is appended and the wrapped function called with
\* the request req (rate_limit itself reads nothing of the request but the
\* client's address, so the rest of it is drawn here, where it is first read)
AppendAndCall(t, shapes) ==
    /\ thr[t].pc = "append"
    /\ rate_limit_storage' =
          [rate_limit_storage EXCEPT ![thr[t].client_ip] = Append(@, thr[t].current_time)]
    /\ admitted' = [admitted EXCEPT ![thr[t].client_ip] =
                       Append(@, thr[t].current_time)]
    /\ served' = [served EXCEPT ![thr[t].client_ip] = Serve(@, thr[t].endpoint)]
    /\ \E req \in RequestsOfShape(shapes, thr[t].endpoint) :
          LET inner == Wrapped(req, thr[t].client_ip)
          IN /\ security_log' = security_log \o inner.logged
             /\ last' = Exchange(thr[t].client_ip, thr[t].endpoint,
                                 thr[t].current_time, "admitted", req, inner,
                                 inner.ends = "call")
    /\ thr' = [thr EXCEPT ![t] = Idle]
    /\ UNCHANGED <<blocked_ips, now, started, fn>>

\* time passes
Tick ==
    /\ \E d \in ClockSteps : now + d <= MaxTime /\ now' = now + d
    /\ UNCHANGED <<rate_limit_storage, blocked_ips, security_log, thr, started,
                   admitted, served, last, fn>>

\* one step of thread t: requests come from the clients in clients to the
\* routes in endpoints, at most limit of them, with contents of the shapes named
Step(t, clients, endpoints, limit, shapes) ==
    \/ \E c \in clients, e \in endpoints : Begin(t, c, e, limit)
    \/ PruneRead(t)
    \/ PruneWrite(t)
    \/ CheckLimit(t)
    \/ Reject(t)
    \/ AppendAndCall(t, shapes)

\* requests of one client to two of the routes, served by concurrent threads
Next ==
    \/ Tick
    \/ \E t \in Threads :
          Step(t, {"10.0.0.1"}, {"/company-profile", "/analyze-company"},
               MaxConcurrentRequests, "well-formed")

Spec == Init /\ [][Next]_vars

\* requests served one at a time
SeqNext == Tick \/ Step(1, Clients, Endpoints, MaxRequests, "well-formed")

SeqSpec == Init /\ [][SeqNext]_vars

PairEndpoints == {"/company-profile", "/analyze-company"}

\* each client's requests served one at a time by a thread of its own, the two
\* threads running concurrently
PairNext ==
    \/ Tick
    \/ Step(1, {"10.0.0.1"}, PairEndpoints, MaxPairRequests, "well-formed")
    \/ Step(2, {"10.0.0.2"}, PairEndpoints, MaxPairRequests, "well-formed")

PairSpec == Init /\ [][PairNext]_vars

\* requests of every shape from one client, served one at a time
GateNext == Tick \/ Step(1, {"10.0.0.1"}, Endpoints, MaxGateRequests, "every")

GateSpec == Init /\ [][GateNext]_vars


(***************************************************************************)
(* The pure functions applied to one input each.                           *)
(***************************************************************************)
\* the strings made of at most n of the fragments
RECURSIVE Concats(_, _)
Concats(fragments, n) ==
    IF n = 0 THEN {<<>>}
    ELSE LET shorter == Concats(fragments, n - 1)
         IN shorter \cup {s \o f : s \in shorter, f \in fragments}

TextFragments ==
    { <<"a", "b">>, <<" ">>, <<"NUL">>, <<"<">>, <<"(">>,
      <<">", "\"", "'", ";", ")", "&", "+">>,
      <<"s", "c", "r", "i", "p", "t">>, <<"o", "n">>, <<"C", "l", "i", "c", "k", "=">>,
      <<"e", "v", "a", "l">> }

\* one string for each signature that the fragments do not make
SignatureTexts ==
    { <<"J", "a", "v", "a", "S", "c", "r", "i", "p", "t", ":">>,
      <<"d", "o", "c", "u", "m", "e", "n", "t", ".">>,
      <<"w", "i", "n", "d", "o", "w", ".">>,
      <<"d", "r", "o", "p", "TAB", "t", "a", "b", "l", "e">>,
      <<"i", "n", "s", "e", "r", "t", " ", "LF", "i", "n", "t", "o">>,
      <<"D", "E", "L", "E", "T", "E", " ", "f", "r", "o", "m">>,
      <<"d", "e", "l", "e", "t", "e", "f", "r", "o", "m">>,
      <<"/", ".", ".", "/", "e", "t", "c">>,
      <<"1", " ", "U", "N", "I", "O", "N", " ", " ", "s", "e", "l", "e", "c", "t">>,
      <<"TAB", "a", "LF">> }

SymbolFragments ==
    { sAAPL, <<"G", "O", "O", "G", "L">>, <<"7">>, <<".">>, <<"-">>, <<" ">>, <<"LF">>,
      <<"<">> }

NonStrings == {PyNone, PyInt(<<"0">>), PyInt(<<"4", "2">>)}

\* the texts of at most n fragments, and the values that are not strings
TextValues(n) ==
    {PyStr(s) : s \in Concats(TextFragments, n) \cup SignatureTexts} \cup NonStrings

SymbolValues(n) == {PyStr(s) : s \in Concats(SymbolFragments, n)} \cup NonStrings

\* max_length=1000 is validate_input's default
MaxLengths == (1..MaxLength) \cup {1000}

\* the calls of the three functions on inputs of at most n fragments
FnCalls(n) ==
    {[op |-> "call", f |-> "validate_input", input |-> v, max_length |-> m,
      allow_special_chars |-> b] : v \in TextValues(n), m \in MaxLengths, b \in BOOLEAN}
    \cup {[op |-> "call", f |-> "validate_symbol", input |-> v] : v \in SymbolValues(n)}
    \cup {[op |-> "call", f |-> "check_suspicious_activity", input |-> v] :
             v \in {w \in TextValues(n) : w.kind = "str"}}

FnInit ==
    /\ rate_limit_storage = [c \in Clients |-> <<>>]
    /\ blocked_ips = {}
    /\ security_log = <<>>
    /\ now = 0
    /\ thr = [t \in Threads |-> Idle]
    /\ started = 0
    /\ admitted = [c \in Clients |-> <<>>]
    /\ served = [c \in Clients |-> [count |-> 0, route |-> "none"]]
    /\ last = NoExchange
    /\ fn \in FnCalls(MaxFrags)

FnReturn(result) ==
    [op |-> "return", f |-> fn.f, call |-> fn, result |-> result]

FnValidateInput ==
    /\ fn.op = "call"
    /\ fn.f = "validate_input"
    /\ fn' = FnReturn(validate_input(fn.input, fn.max_length, fn.allow_special_chars))
    /\ UNCHANGED gateVars

FnValidateSymbol ==
    /\ fn.op = "call"
    /\ fn.f = "validate_symbol"
    /\ fn' = IF validate_symbol_raises(fn.input)
             THEN [op |-> "raise", f |-> fn.f, call |-> fn, raised |-> "TypeError"]
             ELSE FnReturn(validate_symbol(fn.input))
    /\ UNCHANGED gateVars

FnCheckSuspicious ==
    /\ fn.op = "call"
    /\ fn.f = "check_suspicious_activity"
    /\ fn' = FnReturn(check_suspicious_activity(fn.input.s))
    /\ UNCHANGED gateVars

FnNext == FnValidateInput \/ FnValidateSymbol \/ FnCheckSuspicious

FnSpec == FnInit /\ [][FnNext]_vars


(***************************************************************************)
(* Properties                                                              *)
(***************************************************************************)
\* the admitted requests of client c, the last exchange apart
PriorAdmitted(c) ==
    IF last.limiter = "admitted" THEN Len(admitted[c]) - 1 ELSE Len(admitted[c])

\* the last exchange is the k-th request of a client all of whose requests
\* went to one route, started less than one window before it and, the last
\* apart, were let through
CleanRun(k) ==
    /\ last.limiter # "none"
    /\ served[last.client_ip].count = k
    /\ served[last.client_ip].route = last.endpoint
    /\ PriorAdmitted(last.client_ip) = k - 1
    /\ \A i \in 1..Len(admitted[last.client_ip]) :
          last.current_time - admitted[last.client_ip][i]
              < WindowSeconds(Route(last.endpoint).window_minutes)

\* C1: a client that starts with an empty log and sends its requests one after
\* the other to a route with max_requests = n, all within one window, has the
\* first n let through to the wrapped function and the (n+1)-th answered 429
\* "Rate limit exceeded" with retry_after = window_minutes * 60.
C1_AdmitsNThenRejects ==
    \A k \in 1..(MaxRequests + 1) :
        CleanRun(k) =>
            LET r == Route(last.endpoint)
            IN /\ k <= r.max_requests => last.limiter = "admitted" /\ last.validated
               /\ k = r.max_requests + 1 =>
                     /\ last.limiter = "limited"
                     /\ ~last.validated
                     /\ last.response =
                           Response(429, [error |-> "Rate limit exceeded",
                                          retry_after |-> r.window_minutes * 60])

\* the 4th request of a clean run to /company-profile is turned away
C1_Witness ==
    /\ CleanRun(ProfileMaxRequests + 1)
    /\ last.endpoint = "/company-profile"
    /\ last.limiter = "limited"

\* C2: a request evaluated while the client's pruned count exceeds
\* 2 * max_requests puts the client into blocked_ips, and no request of a
\* client in blocked_ips gets past the blocked test: whatever the route and
\* the time, it is answered 429 without a retry_after.
C2_BlockedForGood ==
    [][ /\ \A t \in Threads :
              ( /\ thr[t].pc = "reject"
                /\ thr'[t].pc = "idle"
                /\ Len(rate_limit_storage[thr[t].client_ip])
                      > 2 * Route(thr[t].endpoint).max_requests )
              => thr[t].client_ip \in blocked_ips'
        /\ started' = started + 1 =>
              /\ \A t \in Threads :
                    thr'[t] # thr[t] => thr'[t].client_ip \notin blocked_ips
              /\ thr' = thr =>
                    /\ last'.client_ip \in blocked_ips
                    /\ last'.limiter = "blocked"
                    /\ ~last'.validated
                    /\ last'.response.status = 429
                    /\ "retry_after" \notin DOMAIN last'.response.body
      ]_vars

\* a blocked client turned away at another route after its window has cleared
C2_Witness ==
    /\ last.limiter = "blocked"
    /\ last.endpoint = "/search-company"
    /\ last.response = Response(429, [error |-> "IP blocked due to abuse"])
    /\ admitted[last.client_ip] # <<>>
    /\ \A i \in 1..Len(admitted[last.client_ip]) :
          admitted[last.client_ip][i] + WindowSeconds(1) <= last.current_time

\* the requests of client c let through with a timestamp in the window that
\* ends at time t
AdmittedInWindow(c, t, window_minutes) ==
    {i \in 1..Len(admitted[c]) :
        admitted[c][i] > t - WindowSeconds(window_minutes) /\ admitted[c][i] <= t}

\* C3: however the rate-limit checks of concurrent requests of one client
\* interleave, the requests let through with timestamps in one window never
\* outnumber max_requests.
C3_NeverOverAdmits ==
    last.limiter = "admitted" =>
        Cardinality(AdmittedInWindow(last.client_ip, last.current_time,
                                     Route(last.endpoint).window_minutes))
            <= Route(last.endpoint).max_requests

\* what the route's inner decorator requires of the request req
ChecksPass(req) ==
    LET r == Route(req.endpoint)
    IN IF r.gate = "symbol"
       THEN /\ "symbol" \in DOMAIN req.kwargs
            /\ req.kwargs.symbol.kind = "str"
            /\ validate_symbol(req.kwargs.symbol)
       ELSE /\ req.data.kind = "object"
            /\ r.field_name \in DOMAIN req.data.fields
            /\ MatchingPatterns(str(req.data.fields[r.field_name])) = {}

\* C4: the rate limiter runs first, then the field or symbol validation, then
\* the handler: a request the rate limiter rejects is never validated, and the
\* handler runs only for a request the rate limiter let through and whose
\* declared field (present, not suspicious) or symbol passed.
C4_GateOrder ==
    /\ last.limiter \in {"limited", "blocked"} => ~last.validated /\ ~last.handler
    /\ last.limiter = "admitted" =>
          /\ last.validated
          /\ last.handler => ChecksPass(last.raw)

\* the handler of /search-company reached with a sanitized query
C4_Witness ==
    /\ last.limiter = "admitted"
    /\ last.handler
    /\ last.endpoint = "/search-company"
    /\ last.request # last.raw

\* the gate turned the last request away
GateRejected ==
    /\ last.limiter # "none"
    /\ "body" \in DOMAIN last.response
    /\ last.response.status \in {400, 429}

\* C5: every rejection by the gate (rate limit, blocked client, missing field,
\* suspicious input, invalid symbol) is entered in the security event log.
C5_RejectionsLogged == GateRejected => last.logged # <<>>

\* C6: whatever the request, each step of the gate ends by calling the next
\* step or by returning an error response; none ends in an uncaught exception.
C6_NoUncaughtException ==
    last.limiter # "none" => "raised" \notin DOMAIN last.response

\* the last request reached require_valid_input with a raw field value that
\* matches a signature
SuspiciousField ==
    /\ last.limiter = "admitted"
    /\ Route(last.endpoint).gate = "field"
    /\ last.raw.data.kind = "object"
    /\ Route(last.endpoint).field_name \in DOMAIN last.raw.data.fields
    /\ MatchingPatterns(str(last.raw.data.fields[Route(last.endpoint).field_name])) # {}

\* C7: when the raw value of the declared field matches a signature, the
\* answer is 400 with exactly "Invalid input detected", the handler is not
\* called and the request is left as it arrived.
C7_SuspiciousGeneric ==
    SuspiciousField =>
        /\ last.response = Response(400, [error |-> "Invalid input detected"])
        /\ ~last.handler
        /\ last.request = last.raw

\* a field that is suspicious as it arrives and would be clean once sanitized
C7_Witness ==
    /\ SuspiciousField
    /\ LET r == Route(last.endpoint)
       IN MatchingPatterns(validate_input(last.raw.data.fields[r.field_name],
                                          r.max_length, r.allow_special_chars)) = {}

\* the characters C8 names
DenylistedChars == {"<", ">", "\"", "'", "(", ")", "&", "+"}

ValidateInputReturned == fn.op = "return" /\ fn.f = "validate_input"

\* C8: validate_input returns at most max_length characters, none of them
\* one of < > " ' ( ) & + when allow_special_chars is false, and the empty
\* string for an absent or empty input.
C8_SanitizedBounded ==
    ValidateInputReturned =>
        /\ Len(fn.result) <= fn.call.max_length
        /\ ~fn.call.allow_special_chars =>
              \A i \in 1..Len(fn.result) : fn.result[i] \notin DenylistedChars
        /\ (fn.call.input.kind = "none" \/ fn.call.input = PyStr(<<>>)) => fn.result = <<>>

\* an input cut to max_length and stripped of special characters
C8_Witness ==
    /\ ValidateInputReturned
    /\ fn.call.input.kind = "str"
    /\ ~fn.call.allow_special_chars
    /\ Len(fn.call.input.s) > fn.call.max_length
    /\ \E i \in 1..fn.call.max_length : fn.call.input.s[i] \in DenylistedChars
    /\ fn.result # <<>>

\* the whole string is 1 to 10 ASCII letters and digits
WellFormedSymbol(s) ==
    /\ Len(s) >= 1
    /\ Len(s) <= 10
    /\ \A i \in 1..Len(s) : s[i] \in UpperLetters \cup LowerLetters \cup Digits

\* C9: validate_symbol(s) is true exactly when the whole of s is 1 to 10
\* ASCII letters and digits; any other character anywhere, a trailing newline
\* included, makes it false.
C9_SymbolShape ==
    (fn.op = "return" /\ fn.f = "validate_symbol" /\ fn.call.input.kind = "str")
        => (fn.result <=> WellFormedSymbol(fn.call.input.s))

\* C10: a client in blocked_ips stays in blocked_ips: no step removes an entry.
C10_BlockedMonotonic == [][blocked_ips \subseteq blocked_ips']_vars

\* a blocked client with a request of its own still in the rate limiter
C10_Witness ==
    /\ blocked_ips # {}
    /\ \E t \in Threads : thr[t].pc = "reject" /\ thr[t].client_ip \in blocked_ips

\* thread t's prune has just replaced its client's list
Pruned(t) == thr[t].pc = "prune_write" /\ thr'[t].pc = "check_limit"

\* C11: right after the prune step of a check made at time now (the check's
\* current_time), every timestamp of the client's list lies within
\* [now - window_minutes * 60, now].
C11_PrunedWithinWindow ==
    [][ \A t \in Threads :
           Pruned(t) =>
              LET log == rate_limit_storage'[thr[t].client_ip]
                  window == WindowSeconds(Route(thr[t].endpoint).window_minutes)
              IN \A i \in 1..Len(log) :
                    /\ log[i] >= thr[t].current_time - window
                    /\ log[i] <= thr[t].current_time
      ]_vars

\* this step decides a request of client c
Decided(c) == served'[c].count = served[c].count + 1

\* C12: a client that is not blocked, was turned away at time t with a
\* retry_after and sent nothing since has its next request to the same route,
\* made at t + window_minutes * 60 or later, let through: the prune of that
\* request clears the window.
C12_SelfClears ==
    [][ ( /\ last.limiter = "limited"
          /\ "retry_after" \in DOMAIN last.response.body
          /\ last.client_ip \notin blocked_ips
          /\ Decided(last.client_ip)
          /\ last'.endpoint = last.endpoint
          /\ last'.current_time
                >= last.current_time + Route(last.endpoint).window_minutes * 60 )
        => last'.limiter = "admitted"
      ]_vars

\* a client turned away at time 0 is back at the same route a window later,
\* past the limit test
C12_Witness ==
    /\ last.limiter = "limited"
    /\ last.current_time = 0
    /\ last.client_ip \notin blocked_ips
    /\ \E t \in Threads :
          /\ thr[t].pc = "append"
          /\ thr[t].client_ip = last.client_ip
          /\ thr[t].endpoint = last.endpoint
          /\ thr[t].current_time = 60

\* this step is a step of a request of client a
ActsFor(a) ==
    \/ \E t \in Threads :
          /\ thr'[t] # thr[t]
          /\ a = IF thr[t].pc = "idle" THEN thr'[t].client_ip ELSE thr[t].client_ip
    \/ /\ started' = started + 1
       /\ thr' = thr
       /\ last'.client_ip = a

\* the requests of client b let through before, with a timestamp later than
\* window_start
OwnInWindow(b, window_start) ==
    {i \in 1..Len(admitted[b]) : admitted[b][i] > window_start}

\* C13: a step of a request of client a leaves the list and the blocked_ips
\* membership of every other client b as they were, and whether a request of b
\* (not blocked) is let through is decided by b's own earlier requests alone:
\* it is let through exactly when fewer than max_requests of b's own admitted
\* requests are in its window.
C13_ClientsIndependent ==
    [][ \A a \in Clients, b \in Clients :
          /\ (ActsFor(a) /\ b # a) =>
                /\ rate_limit_storage'[b] = rate_limit_storage[b]
                /\ (b \in blocked_ips') = (b \in blocked_ips)
          /\ (Decided(b) /\ last'.limiter # "blocked") =>
                LET r == Route(last'.endpoint)
                    own == OwnInWindow(b, last'.current_time - r.window_minutes * 60)
                IN last'.limiter =
                      IF Cardinality(own) < r.max_requests THEN "admitted" ELSE "limited"
      ]_vars

\* after one client has been blocked, a request of the other is let through
C13_Witness ==
    /\ "10.0.0.1" \in blocked_ips
    /\ last.client_ip = "10.0.0.2"
    /\ last.limiter = "admitted"

\* the steps of the reference pipeline, each stated on positions
Without(s, class) == SelectSeq(s, LAMBDA ch : ch \notin class)

FirstChars(s, n) == [i \in 1..(IF Len(s) < n THEN Len(s) ELSE n) |-> s[i]]

Trimmed(s) ==
    LET inner == {i \in 1..Len(s) : s[i] \notin WhiteSpace}
    IN IF inner = {} THEN <<>>
       ELSE SubSeq(s, CHOOSE i \in inner : \A j \in inner : i <= j,
                      CHOOSE i \in inner : \A j \in inner : i >= j)

\* (a) control characters removed, (b) cut to max_length, (c) the characters
\* of removed taken out unless special characters are allowed, (d) trimmed
ReferencePipeline(s, max_length, allow_special_chars, removed) ==
    LET cut == FirstChars(Without(s, ControlChars), max_length)
    IN Trimmed(IF allow_special_chars THEN cut ELSE Without(cut, removed))

ValidateInputOfString == ValidateInputReturned /\ fn.call.input.kind = "str"

\* C14: for every input string, max_length and allow_special_chars,
\* validate_input returns what the reference pipeline returns when step (c)
\* removes < > " ' ( ) & + and leaves every other character in place.
C14_ReferencePipeline ==
    ValidateInputOfString =>
        fn.result = ReferencePipeline(fn.call.input.s, fn.call.max_length,
                                      fn.call.allow_special_chars, DenylistedChars)

\* C14 as amended: step (c) removes < > " ' ; ( ) & +, the semicolon included.
C14_PipelineWithSemicolon ==
    ValidateInputOfString =>
        fn.result = ReferencePipeline(fn.call.input.s, fn.call.max_length,
                                      fn.call.allow_special_chars,
                                      DenylistedChars \cup {";"})

\* an input with a semicolon, cut short, of which something is left
C14_Witness ==
    /\ ValidateInputOfString
    /\ ~fn.call.allow_special_chars
    /\ Len(fn.call.input.s) > fn.call.max_length
    /\ \E i \in 1..Len(fn.call.input.s) : fn.call.input.s[i] = ";"
    /\ fn.result # <<>>

\* thread t's prune has just read its client's list
PruneCopied(t) == thr[t].pc = "prune_read" /\ thr'[t].pc = "prune_write"

\* window_start of the check thread t is making
WindowStartOf(t) ==
    thr[t].current_time - Route(thr[t].endpoint).window_minutes * 60

\* the entries of log that a prune dropping those below `from` (those equal
\* to it too, when inclusive is false) keeps
KeptFrom(log, from, inclusive) ==
    SelectSeq(log, LAMBDA x : ~(x < from) /\ (inclusive \/ x # from))

\* C15: the prune step drops exactly the entries with a timestamp
\* < window_start; an entry whose timestamp equals window_start is retained.
C15_DropsOlderOnly ==
    [][ \A t \in Threads :
          /\ PruneCopied(t) =>
                thr'[t].filtered
                   = KeptFrom(rate_limit_storage[thr[t].client_ip], WindowStartOf(t), TRUE)
          /\ Pruned(t) => rate_limit_storage'[thr[t].client_ip] = thr[t].filtered
      ]_vars

\* C15 as amended: the prune step drops exactly the entries with a timestamp
\* <= window_start; an entry whose timestamp equals window_start is dropped.
C15_DropsOlderAndEqual ==
    [][ \A t \in Threads :
          /\ PruneCopied(t) =>
                thr'[t].filtered
                   = KeptFrom(rate_limit_storage[thr[t].client_ip], WindowStartOf(t), FALSE)
          /\ Pruned(t) => rate_limit_storage'[thr[t].client_ip] = thr[t].filtered
      ]_vars

\* a prune about to drop an entry whose timestamp is window_start and to keep
\* a later one
C15_Witness ==
    \E t \in Threads :
        /\ thr[t].pc = "prune_write"
        /\ \E i \in 1..Len(rate_limit_storage[thr[t].client_ip]) :
              rate_limit_storage[thr[t].client_ip][i] = WindowStartOf(t)
        /\ thr[t].filtered # <<>>
        /\ \A i \in 1..Len(thr[t].filtered) : thr[t].filtered[i] > WindowStartOf(t)

TurnedAway(t) == thr[t].pc = "reject" /\ thr'[t].pc = "idle"

\* C17: the list is changed by every request of a client that is not blocked:
\* it is pruned, and the timestamp is appended once the decision is made, so a
\* request turned away with max_requests <= count <= 2 * max_requests still
\* leaves its timestamp in the list.
C17_RejectedStillLogged ==
    [][ \A t \in Threads :
          ( /\ TurnedAway(t)
            /\ Len(rate_limit_storage[thr[t].client_ip])
                  <= 2 * Route(thr[t].endpoint).max_requests )
          => rate_limit_storage'[thr[t].client_ip]
                = Append(rate_limit_storage[thr[t].client_ip], thr[t].current_time)
      ]_vars

\* C18: the list and blocked_ips are keyed by the client alone, whatever the
\* route.  A client that is not blocked, has only sent requests to
\* /company-profile, all let through, and has more than
\* 2 * max_requests(/analyze-company) of them in the window (more than 10 with
\* the routes' own limits) has its first request to /analyze-company turned
\* away by the limit test and is put into blocked_ips.
C18_SharedAcrossRoutes ==
    [][ \A c \in Clients :
          ( /\ Decided(c)
            /\ c \notin blocked_ips
            /\ served[c].route = "/company-profile"
            /\ served[c].count = Len(admitted[c])
            /\ last'.endpoint = "/analyze-company"
            /\ Cardinality(OwnInWindow(c, last'.current_time
                              - Route("/analyze-company").window_minutes * 60))
                  > 2 * Route("/analyze-company").max_requests )
          => /\ last'.limiter = "limited"
             /\ last'.response = RateLimitResponse(Route("/analyze-company").window_minutes)
             /\ c \in blocked_ips'
      ]_vars

\* three requests to /company-profile let through, and the client's first
\* request to /analyze-company at the escalation test
C18_Witness ==
    \E t \in Threads :
        /\ thr[t].pc = "reject"
        /\ thr[t].endpoint = "/analyze-company"
        /\ thr[t].client_ip \notin blocked_ips
        /\ served[thr[t].client_ip] = [count |-> 3, route |-> "/company-profile"]
        /\ Len(admitted[thr[t].client_ip]) = 3
        /\ Len(rate_limit_storage[thr[t].client_ip]) = 3

\* C19: the prune of one request never discards a timestamp that another
\* request of the same client has appended: every entry of the list that is
\* still inside the pruning request's window is in the list after the prune.
C19_PruneKeepsAppends ==
    [][ \A t \in Threads :
          Pruned(t) =>
             rate_limit_storage'[thr[t].client_ip]
                = KeptFrom(rate_limit_storage[thr[t].client_ip], WindowStartOf(t), FALSE)
      ]_vars

\* C20: a raw field value that passes the scan is still clean once sanitized:
\* the value require_valid_input writes back and hands to the handler matches
\* no signature.
C20_SanitizedStaysClean ==
    ( /\ last.limiter = "admitted"
      /\ last.handler
      /\ Route(last.endpoint).gate = "field" )
    => MatchingPatterns(str(last.request.data.fields[Route(last.endpoint).field_name]))
          = {}

====
